---------------------------- MODULE Spec2Model ----------------------------
(***************************************************************************)
(* A model of org2mind.py: the colour allocator random_color and the       *)
(* single-pass outline parser of org2mind.                                 *)
(*                                                                         *)
(* Text is modelled as sequences of one-character strings, so that         *)
(* str.strip() and the two regular expressions are computed, not assumed.  *)
(* A node's id (uuid4().hex, unique per node) is its index in `nodes`,     *)
(* the sequence of all Node objects in creation order.                     *)
(*                                                                         *)
(* Two specifications share the variables:                                 *)
(*   Spec       the parser, one step per input line; a call of             *)
(*              random_color is one atomic step returning any colour the   *)
(*              rejection loop can return;                                 *)
(*   ColorSpec  the allocator alone, one step per loop iteration, driven   *)
(*              by a seeded generator.                                     *)
(***************************************************************************)
EXTENDS Integers, Sequences, FiniteSets

VARIABLES
    pc,                \* org2mind: "idle" (not called), "loop" (line 136), "done" (line 174)
    input,             \* history: the raw lines the loop has read so far
    meta,              \* org2mind.meta
    nodes,             \* every Node created, in creation order; nodes[1] is root
    stack,             \* org2mind.stack, as node ids
    background_color,  \* org2mind.background_color
    direction,         \* org2mind.direction
    level,             \* org2mind.level
    last_color,        \* random_color.last_color (NoColor: attribute not set)
    gen,               \* the generator's output cycle: position -> colour
    rng,               \* the generator's state: its position on the cycle
    rc_pc,             \* random_color: "idle", "loop" (line 110), "break" (line 116)
    color,             \* random_color.color
    events             \* history: each random.seed(s) and each returned colour

vars == <<pc, input, meta, nodes, stack, background_color, direction, level,
          last_color, gen, rng, rc_pc, color, events>>

parserVars == <<pc, input, meta, nodes, stack, background_color, direction, level>>

allocatorVars == <<gen, rng, rc_pc, color, events>>

---------------------------------------------------------------------------
(* Bounds *)

MaxLines == 3

MaxDepth == 3

RngPeriod == 2

MaxEvents == 4

---------------------------------------------------------------------------
(* Text *)

NoColor == "None"

Whitespace == {" "}

IsSpace(c) == c \in Whitespace

RECURSIVE LStrip(_)
LStrip(s) ==
    IF s = <<>> THEN s
    ELSE IF IsSpace(Head(s)) THEN LStrip(Tail(s)) ELSE s

RECURSIVE RStrip(_)
RStrip(s) ==
    IF s = <<>> THEN s
    ELSE IF IsSpace(s[Len(s)]) THEN RStrip(SubSeq(s, 1, Len(s) - 1)) ELSE s

\* str.strip()
Strip(s) == RStrip(LStrip(s))

\* str.lower(), on the letters the inputs use
Lower(s) ==
    [i \in 1..Len(s) |->
        CASE s[i] = "T" -> "t"
          [] s[i] = "I" -> "i"
          [] s[i] = "L" -> "l"
          [] s[i] = "E" -> "e"
          [] s[i] = "A" -> "a"
          [] s[i] = "P" -> "p"
          [] s[i] = "Q" -> "q"
          [] OTHER -> s[i]]

\* The least element of a non-empty set of integers.
Least(S) == CHOOSE p \in S : \A q \in S : p <= q

\* After `\s+` has matched from position p (greedy, giving back one
\* character when it would leave nothing for `(.+?)$`): where the last
\* group starts.
RestStart(line, p) ==
    LET nonspace == {q \in p..Len(line) : ~IsSpace(line[q])}
    IN  IF nonspace = {} THEN Len(line) ELSE Least(nonspace)

\* re.match(r'^#\+(.+?):\s+(.+?)$', line): the lazy key ends before the
\* first ':' (after at least one character) that a whitespace character
\* and one more character follow.
MatchMeta(line) ==
    LET ends == {p \in 4..(Len(line) - 2) : line[p] = ":" /\ IsSpace(line[p + 1])}
    IN  IF Len(line) >= 2 /\ line[1] = "#" /\ line[2] = "+" /\ ends # {}
        THEN LET p == Least(ends)
             IN  [ok |-> TRUE,
                  key |-> SubSeq(line, 3, p - 1),
                  value |-> SubSeq(line, RestStart(line, p + 2), Len(line))]
        ELSE [ok |-> FALSE, key |-> <<>>, value |-> <<>>]

RECURSIVE CountStars(_)
CountStars(s) ==
    IF s # <<>> /\ Head(s) = "*" THEN 1 + CountStars(Tail(s)) ELSE 0

\* re.match(r'^(\*+)\s+(.+?)$', line)
MatchHeading(line) ==
    LET n == CountStars(line)
    IN  IF n >= 1 /\ Len(line) >= n + 2 /\ IsSpace(line[n + 1])
        THEN [ok |-> TRUE,
              stars |-> n,
              heading |-> SubSeq(line, RestStart(line, n + 2), Len(line))]
        ELSE [ok |-> FALSE, stars |-> 0, heading |-> <<>>]

---------------------------------------------------------------------------
(* Inputs *)

RECURSIVE Stars(_)
Stars(n) == IF n = 0 THEN <<>> ELSE <<"*">> \o Stars(n - 1)

HeadingLines == {Stars(d) \o <<" ", "A">> : d \in 1..MaxDepth}

Lines ==
    HeadingLines \cup
    { <<" ">>,                                              \* blank after strip
      <<"#", "+", "T", "I", "T", "L", "E", ":", " ", "P">>,  \* #+TITLE: P
      <<" ", "#", "+", "t", "i", "t", "l", "e", ":", " ", "Q", " ">>,
      <<"#", "+", "a", ":", " ", "P">>,                      \* another key
      <<"*", "A">> }                                         \* matches nothing

Seeds == {0, 1}

---------------------------------------------------------------------------
(* random_color *)

colors == <<"#5EBD3E", "#FFB900", "#F78200", "#E23838", "#973999", "#009CDF">>

Palette == {colors[i] : i \in 1..Len(colors)}

AcceptAlways(c, last) == TRUE

AcceptNoFirst(c, last) == last # NoColor /\ c # last

\* The loop's exit test: not hasattr(random_color, 'last_color') or
\* color != random_color.last_color
Accept(c, last) == last = NoColor \/ c # last

\* The colours a call of random_color can return from a given last_color.
RandomColorResults(last) == {c \in Palette : Accept(c, last)}

---------------------------------------------------------------------------
(* Node and the parser's steps *)

\* Node(topic, level=..., background_color=..., foreground_color=...)
Node(topic, lvl, isroot, bg, fg) ==
    [topic |-> topic, level |-> lvl, isroot |-> isroot, expended |-> TRUE,
     direction |-> "right", children |-> <<>>,
     background_color |-> bg, foreground_color |-> fg]

foreground_color == "#ffffff"

directions == <<"right", "left">>

RootTopic == <<"r", "o", "o", "t">>

AddChildFirst(ns, parent, child) ==
    [ns EXCEPT ![parent].children = <<child>> \o @]

\* Node.add_child: self.children += [node]
AddChild(ns, parent, child) ==
    [ns EXCEPT ![parent].children = Append(@, child)]

\* meta[meta_key] = meta_value
MetaPut(m, key, value) ==
    [k \in DOMAIN m \cup {key} |-> IF k = key THEN value ELSE m[k]]

IsTitleKeyExact(key) == key = <<"t", "i", "t", "l", "e">>

\* meta_key.lower() == 'title'
IsTitleKey(key) == Lower(key) = <<"t", "i", "t", "l", "e">>

FlipNever(d) == d

\* direction = 1 - direction
Flip(d) == 1 - d

HeadingBackgroundInherited(current_level, bg, drawn) == bg

\* The new node's background_color: the current branch colour (line 157),
\* replaced by the colour just drawn when the heading has depth 1 (line 164).
HeadingBackground(current_level, bg, drawn) ==
    IF current_level = 1 THEN drawn ELSE bg

NewStackStrictGuard(stk, ns, lvl, current_level) ==
    IF current_level < lvl
    THEN SelectSeq(stk, LAMBDA x : ns[x].level < current_level)
    ELSE stk

NewStackKeepEqual(stk, ns, lvl, current_level) ==
    IF current_level <= lvl
    THEN SelectSeq(stk, LAMBDA x : ns[x].level <= current_level)
    ELSE stk

\* if current_level <= level:
\*     stack = [x for x in stack if x.level < current_level]
NewStack(stk, ns, lvl, current_level) ==
    IF current_level <= lvl
    THEN SelectSeq(stk, LAMBDA x : ns[x].level < current_level)
    ELSE stk

NextLevelStale(lvl, current_level) == lvl

\* level = current_level
NextLevel(lvl, current_level) == current_level

\* org2mind up to the loop: the locals, the root (whose colour is the first
\* call of random_color) and the stack.  Node('root', ...) leaves isroot at
\* its default, False.  meta['version'] is the float 0.2, written here as
\* its digits.
Start ==
    /\ pc = "idle"
    /\ \E c \in RandomColorResults(last_color) :
          /\ last_color' = c
          /\ nodes' = <<Node(RootTopic, 0, FALSE, c, foreground_color)>>
    /\ meta' = [k \in {<<"v", "e", "r", "s", "i", "o", "n">>} |-> <<"0", ".", "2">>]
    /\ background_color' = NoColor
    /\ direction' = 0
    /\ level' = -1
    /\ stack' = <<1>>
    /\ input' = <<>>
    /\ pc' = "loop"
    /\ UNCHANGED allocatorVars

\* One iteration of `for line in fd`, on the raw line `raw`: strip, skip a
\* blank line, then the metadata match and the heading match, both tried.
ReadLine(raw) ==
    LET line == Strip(raw)
        mm == MatchMeta(line)
        hm == MatchHeading(line)
        isMeta == line # <<>> /\ mm.ok
        isHeading == line # <<>> /\ hm.ok
        current_level == hm.stars
        titled == IF isMeta /\ IsTitleKey(mm.key)
                  THEN [nodes EXCEPT ![1].topic = mm.value]
                  ELSE nodes
        id == Len(nodes) + 1
    IN  /\ pc = "loop"
        /\ Len(input) < MaxLines
        /\ input' = Append(input, raw)
        /\ meta' = IF isMeta THEN MetaPut(meta, mm.key, mm.value) ELSE meta
        /\ IF isHeading
           THEN \E drawn \in (IF current_level = 1
                              THEN RandomColorResults(last_color)
                              ELSE {last_color}) :
                  LET node == [Node(hm.heading, current_level, FALSE,
                                    HeadingBackground(current_level, background_color, drawn),
                                    foreground_color)
                               EXCEPT !.direction =
                                   IF current_level = 1
                                   THEN directions[direction + 1] ELSE @]
                      created == Append(titled, node)
                      stk == NewStack(stack, created, level, current_level)
                  IN  /\ direction' = IF current_level = 1 THEN Flip(direction) ELSE direction
                      /\ background_color' = IF current_level = 1 THEN drawn ELSE background_color
                      /\ last_color' = drawn
                      /\ nodes' = AddChild(created, stk[Len(stk)], id)
                      /\ stack' = Append(stk, id)
                      /\ level' = NextLevel(level, current_level)
           ELSE /\ nodes' = titled
                /\ UNCHANGED <<stack, background_color, direction, level, last_color>>
        /\ pc' = pc
        /\ UNCHANGED allocatorVars

\* The file is exhausted: the loop ends and the tree is exported.
Finish ==
    /\ pc = "loop"
    /\ pc' = "done"
    /\ UNCHANGED <<input, meta, nodes, stack, background_color, direction, level,
                   last_color>>
    /\ UNCHANGED allocatorVars

Init ==
    /\ pc = "idle"
    /\ input = <<>>
    /\ meta = <<>>
    /\ nodes = <<>>
    /\ stack = <<>>
    /\ background_color = NoColor
    /\ direction = 0
    /\ level = -1
    /\ last_color = NoColor
    /\ gen = [p \in 0..(RngPeriod - 1) |-> colors[1]]
    /\ rng = 0
    /\ rc_pc = "idle"
    /\ color = NoColor
    /\ events = <<>>

Next ==
    \/ Start
    \/ \E raw \in Lines : ReadLine(raw)
    \/ Finish

Spec == Init /\ [][Next]_vars

---------------------------------------------------------------------------
(* The allocator, step by step *)

\* random.seed(s) puts the generator at the cycle position the seed names.
SeedPos(s) == s % RngPeriod

\* random.choice(colors): the colour the generator yields in state r.
Choice(g, r) == g[r]

\* The generator's state after one draw.
Advance(r) == (r + 1) % RngPeriod

SeedEvent(s) == [kind |-> "seed", val |-> s]

ColorEvent(c) == [kind |-> "color", val |-> c]

\* random.seed(args.seed), line 244, before a conversion in this process.
Seed(s) ==
    /\ rc_pc = "idle"
    /\ Len(events) < MaxEvents
    /\ rng' = SeedPos(s)
    /\ events' = Append(events, SeedEvent(s))
    /\ UNCHANGED <<gen, rc_pc, color, last_color>>
    /\ UNCHANGED parserVars

\* random_color() is called: control reaches `while True`.
Call ==
    /\ rc_pc = "idle"
    /\ Len(events) < MaxEvents
    /\ rc_pc' = "loop"
    /\ UNCHANGED <<gen, rng, color, events, last_color>>
    /\ UNCHANGED parserVars

\* One iteration of the loop: draw, then break or go round again.
Draw ==
    /\ rc_pc = "loop"
    /\ color' = Choice(gen, rng)
    /\ rng' = Advance(rng)
    /\ rc_pc' = IF Accept(color', last_color) THEN "break" ELSE "loop"
    /\ UNCHANGED <<gen, events, last_color>>
    /\ UNCHANGED parserVars

\* random_color.last_color = color; return color
Return ==
    /\ rc_pc = "break"
    /\ last_color' = color
    /\ events' = Append(events, ColorEvent(color))
    /\ color' = NoColor
    /\ rc_pc' = "idle"
    /\ UNCHANGED <<gen, rng>>
    /\ UNCHANGED parserVars

\* A fresh process that has run random.seed(s): last_color is not set yet.
\* Any output cycle stands for the generator.
ColorInit ==
    /\ pc = "idle"
    /\ input = <<>>
    /\ meta = <<>>
    /\ nodes = <<>>
    /\ stack = <<>>
    /\ background_color = NoColor
    /\ direction = 0
    /\ level = -1
    /\ last_color = NoColor
    /\ gen \in [0..(RngPeriod - 1) -> Palette]
    /\ \E s \in Seeds :
          /\ rng = SeedPos(s)
          /\ events = <<SeedEvent(s)>>
    /\ rc_pc = "idle"
    /\ color = NoColor

ColorNext ==
    \/ \E s \in Seeds : Seed(s)
    \/ Call
    \/ Draw
    \/ Return

\* The interpreter runs the one thread on: a loop iteration or a return
\* that can be taken is taken.
ColorSpec ==
    ColorInit /\ [][ColorNext]_vars /\ WF_vars(Draw) /\ WF_vars(Return)

---------------------------------------------------------------------------
(* What the input says, read off the history *)

TitleLineP == <<"#", "+", "T", "I", "T", "L", "E", ":", " ", "P">>

TitleLineQ == <<" ", "#", "+", "t", "i", "t", "l", "e", ":", " ", "Q", " ">>

\* The heading lines among ls, in order, each as its match.
RECURSIVE HeadingsOf(_)
HeadingsOf(ls) ==
    IF ls = <<>> THEN <<>>
    ELSE LET line == Strip(Head(ls))
             hm == MatchHeading(line)
         IN  (IF line # <<>> /\ hm.ok THEN <<hm>> ELSE <<>>) \o HeadingsOf(Tail(ls))

Headings == HeadingsOf(input)

\* The value of the last metadata line of ls whose key is "title" in any
\* letter case; the placeholder when there is none.
RECURSIVE LastTitle(_)
LastTitle(ls) ==
    IF ls = <<>> THEN RootTopic
    ELSE LET line == Strip(ls[Len(ls)])
             mm == MatchMeta(line)
         IN  IF line # <<>> /\ mm.ok /\ Lower(mm.key) = <<"t", "i", "t", "l", "e">>
             THEN mm.value
             ELSE LastTitle(SubSeq(ls, 1, Len(ls) - 1))

Greatest(S) == CHOOSE p \in S : \A q \in S : q <= p

\* The nodes that hold node i among their children.
ParentsOf(i) ==
    {p \in 1..Len(nodes) :
        \E c \in 1..Len(nodes[p].children) : nodes[p].children[c] = i}

\* The pre-order walk of the trees rooted at ids, children in list order.
RECURSIVE PreOrder(_)
PreOrder(ids) ==
    IF ids = <<>> THEN <<>>
    ELSE <<Head(ids)>> \o PreOrder(nodes[Head(ids)].children \o Tail(ids))

Descendants(b) ==
    LET walk == PreOrder(nodes[b].children)
    IN  {walk[i] : i \in 1..Len(walk)}

\* How many of the first k heading lines have depth 1.
DepthOneUpTo(hs, k) == Cardinality({j \in 1..k : hs[j].stars = 1})

\* The specified rule: pop while the top entry's level >= depth.
RECURSIVE PopWhile(_, _)
PopWhile(stk, depth) ==
    IF stk # <<>> /\ nodes[stk[Len(stk)]].level >= depth
    THEN PopWhile(SubSeq(stk, 1, Len(stk) - 1), depth)
    ELSE stk

\* The colours returned so far, in order, across every run of the process.
ReturnedColors ==
    LET cs == SelectSeq(events, LAMBDA e : e.kind = "color")
    IN  [i \in 1..Len(cs) |-> cs[i].val]

SeedIndices == {i \in 1..Len(events) : events[i].kind = "seed"}

\* The colours run i (the one the seed event at i starts) has returned.
RunOutput(i) ==
    LET later == {j \in SeedIndices : j > i}
        last == IF later = {} THEN Len(events) ELSE Least(later) - 1
        cs == SubSeq(events, i + 1, last)
    IN  [k \in 1..Len(cs) |-> cs[k].val]

---------------------------------------------------------------------------
(* The claims *)

\* C1: every heading line of depth D yields a node of level D whose one
\* parent is the node of the nearest preceding heading line of depth < D,
\* or the root when there is none.
C1_ParentIsNearestShallowerHeading ==
    pc # "idle" =>
        LET hs == Headings
        IN  /\ Len(nodes) = Len(hs) + 1
            /\ \A k \in 1..Len(hs) :
                  LET shallower == {j \in 1..(k - 1) : hs[j].stars < hs[k].stars}
                      expected == IF shallower = {} THEN 1 ELSE Greatest(shallower) + 1
                  IN  /\ nodes[k + 1].level = hs[k].stars
                      /\ ParentsOf(k + 1) = {expected}

\* C1's case: depths 1, 3, 2: a jump, then a heading that goes back past
\* the previous one to the depth-1 node.
C1_Witness ==
    /\ pc = "done"
    /\ Len(Headings) = 3
    /\ Headings[1].stars = 1 /\ Headings[2].stars = 3 /\ Headings[3].stars = 2
    /\ nodes[2].children = <<3, 4>>

\* C2: the pre-order walk of the tree from the root is the root and then
\* one node per heading line, in input order, carrying that line's text;
\* with no heading line the root has no children.
C2_PreOrderIsDocumentOrder ==
    pc # "idle" =>
        LET hs == Headings
        IN  /\ PreOrder(<<1>>) = [i \in 1..(Len(hs) + 1) |-> i]
            /\ Len(nodes) = Len(hs) + 1
            /\ \A k \in 1..Len(hs) : nodes[k + 1].topic = hs[k].heading
            /\ (Len(hs) = 0 => nodes[1].children = <<>>)

\* C2's case: a finished parse whose tree branches: the root has two
\* children and the first of them a child of its own.
C2_Witness ==
    /\ pc = "done"
    /\ nodes[1].children = <<2, 4>>
    /\ nodes[2].children = <<3>>

\* C3: the k-th depth-1 heading gets "right" for odd k and "left" for even
\* k, and the alternating state counts the depth-1 headings only.
C3_DirectionAlternates ==
    pc # "idle" =>
        LET hs == Headings
        IN  /\ Len(nodes) = Len(hs) + 1
            /\ direction = DepthOneUpTo(hs, Len(hs)) % 2
            /\ \A k \in 1..Len(hs) :
                  hs[k].stars = 1 =>
                      nodes[k + 1].direction =
                          IF DepthOneUpTo(hs, k) % 2 = 1 THEN "right" ELSE "left"

\* C3's case: two depth-1 headings with a deeper heading between them.
C3_Witness ==
    /\ pc = "done"
    /\ Len(Headings) = 3
    /\ Headings[1].stars = 1 /\ Headings[2].stars = 2 /\ Headings[3].stars = 1
    /\ nodes[4].direction = "left"

\* C4: every descendant of a depth-1 node has that node's background
\* colour, a palette colour; every heading node created before the first
\* depth-1 heading has none.
C4_BranchBackground ==
    pc # "idle" =>
        \A i \in 2..Len(nodes) :
            /\ nodes[i].level = 1 =>
                  /\ nodes[i].background_color \in Palette
                  /\ \A d \in Descendants(i) :
                        nodes[d].background_color = nodes[i].background_color
            /\ (\A j \in 2..i : nodes[j].level # 1) =>
                  nodes[i].background_color = NoColor

\* C4's case: a heading before the first depth-1 heading, then a depth-1
\* heading with a child.
C4_Witness ==
    /\ pc = "done"
    /\ Len(nodes) = 4
    /\ nodes[2].level = 2 /\ nodes[3].level = 1
    /\ nodes[3].children = <<4>>

\* C5: the root's topic is the value of the last title line read, wherever
\* it stands, and the placeholder when there is none.
C5_RootTopicIsLastTitle ==
    pc # "idle" => nodes[1].topic = LastTitle(input)

\* C5's case: a title line, a heading, and a second title line after it.
C5_Witness ==
    /\ pc = "done"
    /\ input = <<TitleLineP, Stars(1) \o <<" ", "A">>, TitleLineQ>>
    /\ nodes[1].topic = <<"Q">>

\* C6: every colour returned is in the palette and differs from the one
\* the call before it returned, across the runs of a process.
C6_NoImmediateRepeat ==
    \A i \in 1..Len(ReturnedColors) :
        /\ ReturnedColors[i] \in Palette
        /\ i > 1 => ReturnedColors[i] # ReturnedColors[i - 1]

\* C6's case: two colours returned with a re-seeding between them, the
\* second after the generator had offered the first again.
C6_Witness ==
    /\ Len(events) = 4
    /\ events[2].kind = "color"
    /\ events[3] = events[1]
    /\ events[4].kind = "color"

\* C7: two runs seeded alike that have made the same number of calls have
\* returned the same colours, also when they run in one process.
C7_SameSeedSameColors ==
    rc_pc = "idle" =>
        \A i, j \in SeedIndices :
            (events[i].val = events[j].val /\ Len(RunOutput(i)) = Len(RunOutput(j)))
                => RunOutput(i) = RunOutput(j)

C9_FilterEqualsPopWhile ==
    pc = "loop" =>
        \A d \in 1..MaxDepth :
            NewStack(stack, nodes, level, d) = PopWhile(stack, d)

\* C9's case: a stack of three from which a heading of depth 1 removes two
\* entries and one of depth 3 none.
C9_Witness ==
    /\ pc = "loop"
    /\ Len(stack) = 3
    /\ level = 2
    /\ Len(NewStack(stack, nodes, level, 1)) = 1
    /\ NewStack(stack, nodes, level, 3) = stack

\* C10: in the loop the stack is non-empty, starts at the root (level 0),
\* has strictly increasing levels, and after a heading ends at the newest
\* node, whose level is `level`.
C10_StackShape ==
    pc \in {"loop", "done"} =>
        /\ stack # <<>>
        /\ stack[1] = 1
        /\ nodes[1].level = 0
        /\ \A i \in 1..Len(stack) : stack[i] \in 1..Len(nodes)
        /\ \A i \in 1..(Len(stack) - 1) :
              nodes[stack[i]].level < nodes[stack[i + 1]].level
        /\ Len(nodes) > 1 =>
              /\ stack[Len(stack)] = Len(nodes)
              /\ nodes[Len(nodes)].level = level

\* C10's case: headings of depths 3 and 1 and 2: the stack grew, shrank to
\* the root, and grew again.
C10_Witness ==
    /\ pc = "loop"
    /\ Len(Headings) = 3
    /\ Headings[1].stars = 3 /\ Headings[2].stars = 1 /\ Headings[3].stars = 2
    /\ stack = <<1, 3, 4>>

====
